---- MODULE Spec2Model ----
(***************************************************************************)
(* Model of goimports-reviser.                                             *)
(*                                                                         *)
(*   - the reviser pipeline (combineImports -> groupImports -> fixImports  *)
(*     -> generateFile), run twice: the second run reads the first run's   *)
(*     output (specification Spec);                                        *)
(*   - the command line driver of main.go: flag handling, the directory    *)
(*     walk, the ignore filter and the executor closure (specification     *)
(*     CliSpec).                                                           *)
(*                                                                         *)
(* Go strings are TLA+ strings; Len, \o and SubSeq act on them bytewise.   *)
(***************************************************************************)
EXTENDS Integers, Sequences, FiniteSets, TLC

VARIABLES
    \* ---- reviser pipeline ----
    pc,              \* position in main of the reviser
    run,             \* 1: first run, 2: run on the first run's output
    fin,             \* the parsed file (f.Decls) as this run received it
    f,               \* f.Decls, rewritten in place by fixImports
    imports,         \* result of combineImports
    stdImports,      \* results of groupImports
    projectImports,
    generalImports,
    out,             \* text produced by generateFile, a sequence of lines
    prevOut,         \* the text this run was given (run 2: run 1's output)
    \* ---- command line driver ----
    cpc,             \* position in main of the driver
    args,            \* parsed flags
    disk,            \* per file: what reviser.Execute would find there
    gomod,           \* whether the module name can be read from go.mod
    queue,           \* paths filepath.Walk has still to visit
    execCount,       \* per file: calls of reviser.Execute
    emitCount,       \* per file: outputs written to the file or to stdout
    failedOn         \* files for which reviser.Execute returned an error

rvars == <<pc, run, fin, f, imports, stdImports, projectImports, generalImports, out, prevOut>>
cvars == <<cpc, args, disk, gomod, queue, execCount, emitCount, failedOn>>
vars == <<rvars, cvars>>

(***************************************************************************)
(* Bounds of the inputs.                                                   *)
(***************************************************************************)
MaxDecls == 2
MaxSpecs == 3

(***************************************************************************)
(* Strings.                                                                *)
(***************************************************************************)
\* strings.Contains(s, substr)
Contains(s, substr) ==
    \E i \in 0..(Len(s) - Len(substr)) : SubSeq(s, i + 1, i + Len(substr)) = substr

\* The byte value of a one-character string (the characters the inputs use).
Ord(c) ==
    CASE c = " "  -> 32
      [] c = "\"" -> 34
      [] c = "-"  -> 45
      [] c = "/"  -> 47
      [] c = "a"  -> 97
      [] c = "e"  -> 101
      [] c = "f"  -> 102
      [] c = "g"  -> 103
      [] c = "i"  -> 105
      [] c = "m"  -> 109
      [] c = "o"  -> 111
      [] c = "p"  -> 112
      [] c = "r"  -> 114
      [] c = "s"  -> 115
      [] c = "t"  -> 116
      [] c = "v"  -> 118
      [] c = "x"  -> 120
      [] c = "y"  -> 121
      [] c = "z"  -> 122

\* Go's s < t on strings: bytewise lexicographic order.
RECURSIVE StrLess(_, _)
StrLess(s, t) ==
    IF Len(t) = 0 THEN FALSE
    ELSE IF Len(s) = 0 THEN TRUE
    ELSE LET a == Ord(SubSeq(s, 1, 1))
             b == Ord(SubSeq(t, 1, 1))
         IN  IF a # b THEN a < b
             ELSE StrLess(SubSeq(s, 2, Len(s)), SubSeq(t, 2, Len(t)))

StrLeq(s, t) == s = t \/ StrLess(s, t)

\* Insert x into the ascending sequence q, after the entries not greater than it.
RECURSIVE InsertSorted(_, _)
InsertSorted(x, q) ==
    IF q = <<>> THEN <<x>>
    ELSE IF StrLess(x, Head(q)) THEN <<x>> \o q
    ELSE <<Head(q)>> \o InsertSorted(x, Tail(q))

\* sort.Strings(q): q in ascending order.
RECURSIVE SortStrings(_)
SortStrings(q) ==
    IF q = <<>> THEN <<>>
    ELSE InsertSorted(q[Len(q)], SortStrings(SubSeq(q, 1, Len(q) - 1)))

(***************************************************************************)
(* The syntax tree.                                                        *)
(***************************************************************************)
\* importSpec.Name == nil
NoName == ""

projectName == "goimport-reviser"

\* helper.StdPackages: the registry of standard library import paths, keyed
\* by the path literal.
StdPackages == {"\"fmt\"", "\"os\""}

\* The import specs an input file may hold: Path.Value is the literal, quotes
\* included.
ImportPaths == {"\"fmt\"", "\"os\"", "\"x/y\"", "\"goimport-reviser/a\""}
ImportNames == {NoName, "z"}
ImportSpecs == [Name : ImportNames, Path : ImportPaths]

ImportDecl(specs) == [Tok |-> "import", Specs |-> specs]
FuncDecl == [Tok |-> "func", Specs |-> <<>>]

SpecSeqs == UNION {[1..n -> ImportSpecs] : n \in 0..MaxSpecs}

\* The ways to cut a list of n specs into d consecutive import declarations.
Cuts(n, d) ==
    {c \in [0..d -> 0..n] :
        /\ c[0] = 0
        /\ c[d] = n
        /\ \A k \in 1..d : c[k - 1] <= c[k]}

\* What parser.ParseFile returns for an input file: d import declarations that
\* hold the specs s, cut at c, then the rest of the file (Go puts the imports
\* first).
BuildFile(s, d, c) ==
    [k \in 1..(d + 1) |->
        IF k <= d THEN ImportDecl(SubSeq(s, c[k - 1] + 1, c[k])) ELSE FuncDecl]

(***************************************************************************)
(* The reviser's functions.                                                *)
(***************************************************************************)
\* combineImports, lines 143-147: the string kept for one import spec.
ImportSpecStr(importSpec) ==
    IF importSpec.Name # NoName
    THEN importSpec.Name \o " " \o importSpec.Path
    ELSE importSpec.Path

RECURSIVE combineImports(_)
combineImports(decls) ==
    IF decls = <<>> THEN <<>>
    ELSE LET dd == Head(decls)
         IN  (IF dd.Tok = "import"
              THEN [i \in 1..Len(dd.Specs) |-> ImportSpecStr(dd.Specs[i])]
              ELSE <<>>) \o combineImports(Tail(decls))

\* groupImports, lines 54-64: the group its loop appends imprt to.
GroupOf(imprt) ==
    IF imprt \in StdPackages THEN "std"
    ELSE IF Contains(imprt, projectName) THEN "project"
    ELSE "general"

\* The entries of imps the loop appends to group g, in the loop's order.
RECURSIVE Appended(_, _)
Appended(imps, g) ==
    IF imps = <<>> THEN <<>>
    ELSE (IF GroupOf(Head(imps)) = g THEN <<Head(imps)>> ELSE <<>>)
            \o Appended(Tail(imps), g)

groupImports(imps) ==
    [std     |-> SortStrings(Appended(imps, "std")),
     project |-> SortStrings(Appended(imps, "project")),
     general |-> SortStrings(Appended(imps, "general"))]

\* &ast.ImportSpec{Path: &ast.BasicLit{Value: v}}
NewSpec(v) == [Name |-> NoName, Path |-> v]

\* fixImports, lines 92-104 and 106-118: one group's specs, followed by an
\* empty spec when the group is not empty and `more` holds.
GroupSpecs(group, more) ==
    [i \in 1..Len(group) |-> NewSpec(group[i])]
        \o (IF Len(group) > 0 /\ more THEN <<NewSpec("")>> ELSE <<>>)

\* FixedSpecs without the loop over projectImports.
FixedSpecsWithoutProject(std, general, project) ==
    GroupSpecs(std, Len(general) > 0) \o GroupSpecs(general, Len(general) > 0)

\* fixImports, lines 90-123: the specs given to an import declaration.
FixedSpecs(std, general, project) ==
    GroupSpecs(std, Len(general) > 0)
        \o GroupSpecs(general, Len(general) > 0)
        \o [i \in 1..Len(project) |-> NewSpec(project[i])]

fixImports(decls, std, general, project) ==
    [k \in 1..Len(decls) |->
        IF decls[k].Tok = "import"
        THEN [decls[k] EXCEPT !.Specs = FixedSpecs(std, general, project)]
        ELSE decls[k]]

\* printer.Fprint of one import spec: the name, when there is one, and the
\* path literal as it stands.
SpecLine(spec) ==
    IF spec.Name # NoName THEN spec.Name \o " " \o spec.Path ELSE spec.Path

DeclLines(dd) ==
    IF dd.Tok = "import"
    THEN <<"import (">> \o [i \in 1..Len(dd.Specs) |-> SpecLine(dd.Specs[i])] \o <<")">>
    ELSE <<"func main() {}">>

\* generateFile: the text of the file, line by line.
RECURSIVE generateFile(_)
generateFile(decls) ==
    IF decls = <<>> THEN <<>>
    ELSE DeclLines(Head(decls)) \o generateFile(Tail(decls))

\* The index of the first space of line, 0 when it has none.
RECURSIVE SpaceAt(_, _)
SpaceAt(line, i) ==
    IF i > Len(line) THEN 0
    ELSE IF SubSeq(line, i, i) = " " THEN i
    ELSE SpaceAt(line, i + 1)

\* The parser on one line of an import block.
ParseSpec(line) ==
    LET sp == SpaceAt(line, 1)
    IN  IF sp = 0 THEN [Name |-> NoName, Path |-> line]
        ELSE [Name |-> SubSeq(line, 1, sp - 1), Path |-> SubSeq(line, sp + 1, Len(line))]

\* parser.ParseFile on a text generateFile produced: `cur` holds the specs of
\* the import block being read, `inBlock` whether one is open.
RECURSIVE ParseLines(_, _, _)
ParseLines(lines, inBlock, cur) ==
    IF lines = <<>> THEN <<>>
    ELSE LET l == Head(lines)
             rest == Tail(lines)
         IN  IF inBlock
             THEN IF l = ")" THEN <<ImportDecl(cur)>> \o ParseLines(rest, FALSE, <<>>)
                  ELSE IF l = "" THEN ParseLines(rest, TRUE, cur)
                  ELSE ParseLines(rest, TRUE, Append(cur, ParseSpec(l)))
             ELSE IF l = "import (" THEN ParseLines(rest, TRUE, <<>>)
                  ELSE <<FuncDecl>> \o ParseLines(rest, FALSE, <<>>)

ParseFile(lines) == ParseLines(lines, FALSE, <<>>)

(***************************************************************************)
(* The reviser's main, one step per call.                                  *)
(***************************************************************************)
RInit ==
    /\ pc = "parsed"
    /\ run = 1
    /\ \E s \in SpecSeqs : \E d \in 0..MaxDecls : \E c \in Cuts(Len(s), d) :
          fin = BuildFile(s, d, c)
    /\ f = fin
    /\ imports = <<>>
    /\ stdImports = <<>>
    /\ projectImports = <<>>
    /\ generalImports = <<>>
    /\ out = <<>>
    /\ prevOut = generateFile(fin)

CombineImports ==
    /\ pc = "parsed"
    /\ imports' = combineImports(f)
    /\ pc' = "combined"
    /\ UNCHANGED <<run, fin, f, stdImports, projectImports, generalImports, out, prevOut>>

GroupImports ==
    /\ pc = "combined"
    /\ LET g == groupImports(imports)
       IN  /\ stdImports' = g.std
           /\ projectImports' = g.project
           /\ generalImports' = g.general
    /\ pc' = "grouped"
    /\ UNCHANGED <<run, fin, f, imports, out, prevOut>>

FixImports ==
    /\ pc = "grouped"
    /\ f' = fixImports(f, stdImports, generalImports, projectImports)
    /\ pc' = "fixed"
    /\ UNCHANGED <<run, fin, imports, stdImports, projectImports, generalImports, out, prevOut>>

GenerateFile ==
    /\ pc = "fixed"
    /\ out' = generateFile(f)
    /\ pc' = "generated"
    /\ UNCHANGED <<run, fin, f, imports, stdImports, projectImports, generalImports, prevOut>>

\* The reviser is run again, on the text it has just produced.
RunAgain ==
    /\ pc = "generated"
    /\ run = 1
    /\ run' = 2
    /\ prevOut' = out
    /\ fin' = ParseFile(out)
    /\ f' = ParseFile(out)
    /\ imports' = <<>>
    /\ stdImports' = <<>>
    /\ projectImports' = <<>>
    /\ generalImports' = <<>>
    /\ out' = <<>>
    /\ pc' = "parsed"

\* The reviser at rest, while the driver runs.
RIdle ==
    /\ pc = "idle"
    /\ run = 0
    /\ fin = <<>>
    /\ f = <<>>
    /\ imports = <<>>
    /\ stdImports = <<>>
    /\ projectImports = <<>>
    /\ generalImports = <<>>
    /\ out = <<>>
    /\ prevOut = <<>>

(***************************************************************************)
(* The command line driver (main.go).                                      *)
(***************************************************************************)
\* The files of the working directory, in the lexical order filepath.Walk
\* visits them; "sub" is a directory.
Files == <<"a.go", "sub/b.go", "sub/c.txt">>
FileSet == {Files[i] : i \in 1..Len(Files)}

\* What reviser.Execute finds in a file: "bad" does not parse (an error is
\* returned), "dirty" has imports to fix (hasChange), "clean" has none.
Contents == {"clean", "dirty", "bad"}

DirPaths == {"", "./...", "./", "sub"}
FilePaths == {"", "a.go", "sub/b.go"}
IgnoreDirs == {"", "vendor", "vendor,sub"}
Outputs == {"file", "stdout", "xml"}
ProjectNames == {"", "github.com/incu6us/goimports-reviser"}

\* The index of the first sep in s at or after i, 0 when there is none.
RECURSIVE IndexFrom(_, _, _)
IndexFrom(s, sep, i) ==
    IF i > Len(s) THEN 0
    ELSE IF SubSeq(s, i, i) = sep THEN i
    ELSE IndexFrom(s, sep, i + 1)

\* strings.Split(s, sep) for a one-byte sep: always at least one element.
RECURSIVE Split(_, _)
Split(s, sep) ==
    LET i == IndexFrom(s, sep, 1)
    IN  IF i = 0 THEN <<s>>
        ELSE <<SubSeq(s, 1, i - 1)>> \o Split(SubSeq(s, i + 1, Len(s)), sep)

\* main, line 142
ignoreDirs(a) == Split(a.ignoreDir, ",")

isIgnore(a, path) ==
    \E k \in 1..Len(ignoreDirs(a)) : Contains(path, ignoreDirs(a)[k])

\* filepath.Ext: the suffix from the last dot of the last path element.
RECURSIVE Ext(_, _)
Ext(path, i) ==
    IF i < 1 \/ SubSeq(path, i, i) = "/" THEN ""
    ELSE IF SubSeq(path, i, i) = "." THEN SubSeq(path, i, Len(path))
    ELSE Ext(path, i - 1)

isFormatFile(path) == Ext(path, Len(path)) = ".go"

HasPrefix(s, prefix) == Len(s) >= Len(prefix) /\ SubSeq(s, 1, Len(prefix)) = prefix

\* The files filepath.Walk(rootPath) hands to the callback and that are not
\* directories, in its order.
RECURSIVE WalkFrom(_, _)
WalkFrom(rootPath, files) ==
    IF files = <<>> THEN <<>>
    ELSE (IF rootPath = "./" \/ HasPrefix(Head(files), rootPath \o "/")
          THEN <<Head(files)>> ELSE <<>>) \o WalkFrom(rootPath, Tail(files))

\* main, lines 212-221: the root handed to load.
WalkRoot(a) == IF a.dirPath = "./..." THEN "./" ELSE a.dirPath

\* validateRequiredParam returns an error
ParamError(a) == a.filePath = ""

\* validateDir returns an error: os.Stat("") fails; the other directories exist.
DirError(a) == a.dirPath # "./..." /\ a.dirPath = ""

\* determineProjectName returns an error
ProjectNameError(a) == a.projectName = "" /\ ~gomod

CInit ==
    /\ cpc = "start"
    /\ args \in [dirPath : DirPaths, filePath : FilePaths, ignoreDir : IgnoreDirs,
                 output : Outputs, projectName : ProjectNames, showVersion : BOOLEAN]
    /\ disk \in {d \in [FileSet -> Contents] : \A p \in FileSet : ~isFormatFile(p) => d[p] = "clean"}
    /\ gomod \in BOOLEAN
    /\ queue = <<>>
    /\ execCount = [p \in FileSet |-> 0]
    /\ emitCount = [p \in FileSet |-> 0]
    /\ failedOn = {}

\* The executor closure, lines 179-210, applied to path; the driver goes on
\* at `next` unless log.Fatalf ends the process.
Executor(path, next) ==
    IF isIgnore(args, path) \/ ~isFormatFile(path)
    THEN /\ cpc' = next
         /\ UNCHANGED <<disk, execCount, emitCount, failedOn>>
    ELSE /\ execCount' = [execCount EXCEPT ![path] = @ + 1]
         /\ IF disk[path] = "bad"
            THEN /\ failedOn' = failedOn \cup {path}
                 /\ cpc' = "fatal"
                 /\ UNCHANGED <<disk, emitCount>>
            ELSE IF args.output = "stdout"
            THEN /\ emitCount' = [emitCount EXCEPT ![path] = @ + 1]
                 /\ cpc' = next
                 /\ UNCHANGED <<disk, failedOn>>
            ELSE IF args.output = "file"
            THEN IF disk[path] # "dirty"
                 THEN /\ cpc' = next
                      /\ UNCHANGED <<disk, emitCount, failedOn>>
                 ELSE /\ emitCount' = [emitCount EXCEPT ![path] = @ + 1]
                      /\ disk' = [disk EXCEPT ![path] = "clean"]
                      /\ cpc' = next
                      /\ UNCHANGED failedOn
            ELSE /\ cpc' = "fatal"
                 /\ UNCHANGED <<disk, emitCount, failedOn>>

\* main, lines 141-174: flags, -version, the required parameters, the
\* project name, the options.
Start ==
    /\ cpc = "start"
    /\ cpc' = IF args.showVersion THEN "version"
              ELSE IF ParamError(args) /\ DirError(args) THEN "usage"
              ELSE IF ProjectNameError(args) THEN "usage"
              ELSE "switch"
    /\ UNCHANGED <<args, disk, gomod, queue, execCount, emitCount, failedOn>>

\* main, lines 212-219: a directory is given, load walks it.
SwitchLoad ==
    /\ cpc = "switch"
    /\ args.dirPath # ""
    /\ queue' = WalkFrom(WalkRoot(args), Files)
    /\ cpc' = "walk"
    /\ UNCHANGED <<args, disk, gomod, execCount, emitCount, failedOn>>

\* main, lines 219-220: no directory, the executor is called on filePath.
SwitchFile ==
    /\ cpc = "switch"
    /\ args.dirPath = ""
    /\ Executor(args.filePath, "last")
    /\ UNCHANGED <<args, gomod, queue>>

\* load, lines 268-274: the callback of filepath.Walk on the next file.
WalkFile ==
    /\ cpc = "walk"
    /\ queue # <<>>
    /\ Executor(Head(queue), "walk")
    /\ queue' = Tail(queue)
    /\ UNCHANGED <<args, gomod>>

\* load returns: the walk is over.
WalkEnd ==
    /\ cpc = "walk"
    /\ queue = <<>>
    /\ cpc' = "last"
    /\ UNCHANGED <<args, disk, gomod, queue, execCount, emitCount, failedOn>>

\* main, line 223: the executor is called on filePath after the switch.
LastExecutor ==
    /\ cpc = "last"
    /\ Executor(args.filePath, "finish")
    /\ UNCHANGED <<args, gomod, queue>>

\* main, line 225
Finish ==
    /\ cpc = "finish"
    /\ cpc' = "done"
    /\ UNCHANGED <<args, disk, gomod, queue, execCount, emitCount, failedOn>>

CIdle ==
    /\ cpc = "idle"
    /\ args = [dirPath |-> "", filePath |-> "", ignoreDir |-> "", output |-> "file",
               projectName |-> "", showVersion |-> FALSE]
    /\ disk = <<>>
    /\ gomod = FALSE
    /\ queue = <<>>
    /\ execCount = <<>>
    /\ emitCount = <<>>
    /\ failedOn = {}

(***************************************************************************)
(* Specifications.                                                         *)
(***************************************************************************)
Init == RInit /\ CIdle

Next ==
    \/ CombineImports /\ UNCHANGED cvars
    \/ GroupImports /\ UNCHANGED cvars
    \/ FixImports /\ UNCHANGED cvars
    \/ GenerateFile /\ UNCHANGED cvars
    \/ RunAgain /\ UNCHANGED cvars

Spec == Init /\ [][Next]_vars

CliInit == CInit /\ RIdle

CliNext ==
    \/ Start /\ UNCHANGED rvars
    \/ SwitchLoad /\ UNCHANGED rvars
    \/ SwitchFile /\ UNCHANGED rvars
    \/ WalkFile /\ UNCHANGED rvars
    \/ WalkEnd /\ UNCHANGED rvars
    \/ LastExecutor /\ UNCHANGED rvars
    \/ Finish /\ UNCHANGED rvars

CliSpec == CliInit /\ [][CliNext]_vars

(***************************************************************************)
(* Properties of the reviser.                                              *)
(***************************************************************************)
\* The import specs of a file, in the order of the file.
RECURSIVE FlatSpecs(_)
FlatSpecs(decls) ==
    IF decls = <<>> THEN <<>>
    ELSE (IF Head(decls).Tok = "import" THEN Head(decls).Specs ELSE <<>>)
            \o FlatSpecs(Tail(decls))

SpecSet(decls) == {FlatSpecs(decls)[i] : i \in 1..Len(FlatSpecs(decls))}

\* The import path of an entry kept as a string: what follows the alias.
PathOf(imprt) == ParseSpec(imprt).Path

\* The group the classification rule gives a path.
RuleGroup(path) ==
    IF path \in StdPackages THEN "std"
    ELSE IF Contains(path, projectName) THEN "project"
    ELSE "general"

Groups == [std |-> stdImports, general |-> generalImports, project |-> projectImports]
GroupNames == {"std", "general", "project"}

Occurs(x, q) == \E i \in 1..Len(q) : q[i] = x

\* Position of a group in the output: Standard, General, Project.
Rank(g) == CASE g = "std" -> 1 [] g = "general" -> 2 [] g = "project" -> 3

\* The non-blank lines of the import blocks of a text, in the text's order.
OutEntryLines(lines) ==
    LET specs == FlatSpecs(ParseFile(lines))
    IN  [i \in 1..Len(specs) |-> ImportSpecStr(specs[i])]

\* The canonical block: the non-empty groups in the order Standard, General,
\* Project, one blank separator between adjacent non-empty groups.
CanonicalBlock(std, general, project) ==
    std
    \o (IF Len(std) > 0 /\ Len(general) + Len(project) > 0 THEN <<"">> ELSE <<>>)
    \o general
    \o (IF Len(general) > 0 /\ Len(project) > 0 THEN <<"">> ELSE <<>>)
    \o project

\* C1: the second run, on the first run's output, produces that output again
\* (changed = false).
C1_Idempotent == (pc = "generated" /\ run = 2) => out = prevOut

\* C2: no two import entries of the output share a path.
C2_NoDuplicatePath ==
    pc = "generated" =>
        LET e == FlatSpecs(ParseFile(out))
        IN  \A i, j \in 1..Len(e) : i # j => e[i].Path # e[j].Path

\* C3: in each group groupImports returns, consecutive entries are in ascending
\* bytewise order of their import path.
C3_GroupsSortedByPath ==
    pc = "grouped" =>
        \A g \in GroupNames : \A i \in 1..(Len(Groups[g]) - 1) :
            StrLeq(PathOf(Groups[g][i]), PathOf(Groups[g][i + 1]))

\* C4: groupImports puts every entry in the group the ordered rule gives its
\* path (registry match, else module name as a substring, else General), and
\* in no other group.
C4_ClassifiedByPath ==
    pc = "grouped" =>
        \A i \in 1..Len(imports) : \A g \in GroupNames :
            Occurs(imports[i], Groups[g]) <=> g = RuleGroup(PathOf(imports[i]))

\* C5: through the output file the groups appear in the order Standard,
\* General, Project: no entry of a later group precedes one of an earlier
\* group, so no group appears twice.
C5_GroupOrder ==
    pc = "generated" =>
        LET e == OutEntryLines(out)
        IN  \A i, j \in 1..Len(e) :
                i < j => Rank(GroupOf(e[i])) <= Rank(GroupOf(e[j]))

\* C6: the block fixImports builds holds one blank separator between adjacent
\* non-empty groups, none after the last non-empty group and none for an
\* empty group.
C6_Separators ==
    pc = "fixed" =>
        \A k \in 1..Len(f) :
            f[k].Tok = "import" =>
                [i \in 1..Len(f[k].Specs) |-> f[k].Specs[i].Path]
                    = CanonicalBlock(stdImports, generalImports, projectImports)

\* C10: the import entries (alias with path) of the output file are those of
\* the input file, and the specs fixImports builds are the input's entries
\* and blank separators, nothing else.
C10_ImportsConserved ==
    /\ pc = "fixed" =>
          \A k \in 1..Len(f) :
              f[k].Tok = "import" =>
                  {f[k].Specs[i].Path : i \in 1..Len(f[k].Specs)} \ {""}
                      = {ImportSpecStr(e) : e \in SpecSet(fin)}
    /\ pc = "generated" => SpecSet(ParseFile(out)) = SpecSet(fin)

\* C10 witness: a first run has rewritten a file that holds an aliased import
\* and imports of all three groups, separators added.
C10_Witness ==
    /\ pc = "generated"
    /\ run = 1
    /\ out # prevOut
    /\ \E e \in SpecSet(fin) : e.Name # NoName
    /\ Len(stdImports) > 0 /\ Len(generalImports) > 0 /\ Len(projectImports) > 0
    /\ Occurs("", out)
(***************************************************************************)
(* Properties of the command line driver.                                  *)
(***************************************************************************)
\* The files the run is asked to treat: those of the walk, and filePath.
Asked ==
    {p \in FileSet :
        \/ args.dirPath # "" /\ Occurs(p, WalkFrom(WalkRoot(args), Files))
        \/ p = args.filePath}

\* The candidate files of the run: the Go files asked for that the filter of
\* the executor lets through.
Candidates == {p \in Asked : isFormatFile(p) /\ ~isIgnore(args, p)}

\* The ignore-dir values the user supplied: none when the flag is left empty.
UserIgnoreValues ==
    IF args.ignoreDir = "" THEN {}
    ELSE {ignoreDirs(args)[k] : k \in 1..Len(ignoreDirs(args))}

\* C7: when Execute returns an error for one file, every other candidate file
\* of the run is still processed and, if changed, written.
C7_FailureIsolation ==
    (cpc \in {"done", "fatal"} /\ failedOn # {}) =>
        \A p \in Candidates \ failedOn :
            /\ execCount[p] >= 1
            /\ args.output = "file" => disk[p] # "dirty"

\* C8: in one run Execute is called at most once for each file and its output
\* is emitted at most once.
C8_OncePerFile ==
    cpc # "idle" => \A p \in FileSet : execCount[p] <= 1 /\ emitCount[p] <= 1

\* C9: when the run ends normally, a Go file asked for has been passed to
\* Execute unless its path contains an ignore-dir value the user supplied; with
\* the flag left empty every such file has been passed.
C9_IgnoreFilter ==
    cpc = "done" =>
        \A p \in Asked :
            isFormatFile(p) =>
                (execCount[p] >= 1 <=> ~\E v \in UserIgnoreValues : Contains(p, v))
====
